---- MODULE Spec2Model ----
(***************************************************************************)
(* ISSTrackerApp (usr/local/bin/iss-tracker.py) as a state machine.        *)
(*                                                                         *)
(* Two threads share the object's fields: the Tk UI thread (constructor,   *)
(* then the event loop running update_display and the three key handlers)  *)
(* and the daemon thread tle_updater started by schedule_tle_refresh.      *)
(*                                                                         *)
(* Time is kept relative to the real clock: a timestamp is represented by  *)
(* the number of seconds elapsed since it was taken (saturating at MaxAge),*)
(* and an instant of the render tick by its distance in minutes from the   *)
(* real clock.  The clock advances in quanta of the refresher's wait.      *)
(***************************************************************************)
EXTENDS Integers, Sequences, FiniteSets, TLC

\* ------------------------------------------------------------ constants
STALE_SECONDS == 600
REFRESH_WAIT == 60
KEY_STEP == 2
WINDOW_START == -10
WINDOW_END == 90
SAMPLE_STEP == 2
CANVAS_WIDTH == 800
CANVAS_HEIGHT == 400

\* ------------------------------------------------------------ bounds
MaxAge == 660
MaxPresses == 2

Quantum == REFRESH_WAIT

\* variant: the window is closed at its end, range(-10, 90 + 1, 2)
TrackSamplesClosed == (WINDOW_END - WINDOW_START) \div SAMPLE_STEP + 1

\* line 93: the number of values of range(-10, 90, 2)
TrackSamples == (WINDOW_END - WINDOW_START) \div SAMPLE_STEP

None == 0
Threads == {"ui", "bg"}

\* outcomes of requests.get(...).text followed by the scan and the parser
FailKinds == {"neterr", "nolabel", "truncated", "badlines"}

\* a payload is a sequence of lines: the label line "ISS", a well-formed first or
\* second element line "L1" / "L2", or any other line "X"
MaxLines == 4
Lines == {"ISS", "L1", "L2", "X"}
Payloads == UNION {[1..n -> Lines] : n \in 0..MaxLines}

\* longitudes the propagator + frame transform may hand to the track loop:
\* eci_to_latlon returns values of [-180, 180], both ends included
TrackLons == {-180, -179, -178, 0, 179, 180}
MainLons == {179}

\* sizes the window manager may give the canvas: the one it asks for, and a smaller
\* one after the user has shrunk the window
ViewportSizes == {<<CANVAS_WIDTH, CANVAS_HEIGHT>>, <<400, 200>>}

VARIABLES
  satellite,        \* self.satellite: None or the identity of a Satrec
  last_tle_update,  \* self.last_tle_update: [by, age]; by = None when absent
  time_offset,      \* self.time_offset, in minutes
  ui_pc,            \* position of the UI thread
  tick,             \* frame of update_display
  canvas,           \* tags of the items on the canvas
  after_pending,    \* update_display callbacks registered with root.after
  ref_pc,           \* position of the tle_updater thread
  waited,           \* seconds spent so far in threading.Event().wait(60)
  load,             \* frame of load_tle, per thread
  cycle,            \* history: what the current tle_updater iteration saw and did
  presses,          \* history: advances minus rewinds since the last reset
  key_log,          \* history: the last key command and time_offset before it
  viewport,         \* width and height of the canvas as the window shows it
  call              \* a call of a pure method: its name, arguments and result

vars == <<satellite, last_tle_update, time_offset, ui_pc, tick, canvas,
          after_pending, ref_pc, waited, load, cycle, presses, key_log,
          viewport, call>>

NoStamp == [by |-> None, age |-> 0]
NoLon == [k |-> "none", v |-> 0]
NaNLon == [k |-> "nan", v |-> 0]
Num(x) == [k |-> "num", v |-> x]

Min(a, b) == IF a < b THEN a ELSE b
Abs(a) == IF a < 0 THEN -a ELSE a

IdleLoad == [pc |-> "idle", kind |-> "none", new |-> None, pre |-> <<None, None>>]
\* the frame of update_display: pc, the loop index i, prev_lon, now (minutes from
\* the real instant of line 81), nan (path_coords holds a NaN), e (the error code
\* of the latest sgp4 call), path_coords (its length), t (the instant of the latest
\* sgp4 call), sat and sat_fut (the element sets lines 83 and 98 read), dims (the
\* width and height of the latest latlon_to_xy call), shown (the canvas line 78
\* found)
IdleTick == [pc |-> "idle", i |-> 0, prev_lon |-> NoLon, now |-> 0, nan |-> FALSE,
             e |-> 0, path_coords |-> 0, t |-> 0, sat |-> None, sat_fut |-> None,
             dims |-> <<0, 0>>, shown |-> {}]
NoCycle == [stale |-> FALSE, attempts |-> 0]
NoCall == [fn |-> "none", args |-> <<>>, ret |-> <<>>]

Init ==
  /\ satellite = None
  /\ last_tle_update = NoStamp
  /\ time_offset = 0
  /\ ui_pc = "init_load"
  /\ tick = IdleTick
  /\ canvas = {"image"}
  /\ after_pending = 0
  /\ ref_pc = "unstarted"
  /\ waited = 0
  /\ load = [t \in Threads |-> IdleLoad]
  /\ cycle = NoCycle
  /\ presses = 0
  /\ key_log = [cmd |-> "none", before |-> 0]
  /\ viewport = <<CANVAS_WIDTH, CANVAS_HEIGHT>>
  /\ call = NoCall

Alive == ui_pc # "crashed"

\* ------------------------------------------------------------ load_tle
\* variant: tle_updater is run on the thread that called schedule_tle_refresh
RefresherOnCaller == "ui"

\* line 75: the thread that runs tle_updater
RefresherThread == "bg"

\* lines 56-57: index of the first line holding the label, 0 when there is none
LabelIndex(lines) ==
  IF \E i \in 1..Len(lines) : lines[i] = "ISS"
  THEN CHOOSE i \in 1..Len(lines) :
         /\ lines[i] = "ISS"
         /\ \A j \in 1..(i - 1) : lines[j] # "ISS"
  ELSE 0

\* lines 56-60: how the scan of a payload ends, up to the call of the parser
ScanPayload(lines) ==
  LET i == LabelIndex(lines) IN
  IF i = 0 THEN "nolabel"
  ELSE IF i + 2 > Len(lines) THEN "truncated"
  ELSE IF lines[i + 1] = "L1" /\ lines[i + 2] = "L2" THEN "good"
  ELSE "badlines"

\* lines 54-60: how a call can end once requests.get has returned a payload
ScanOutcomes == {ScanPayload(lines) : lines \in Payloads}

\* the Satrec object built by line 60 is a new one: two identities are enough to
\* tell it from the one it replaces
NewSatrec == IF satellite = 1 THEN 2 ELSE 1

LoadCall == [pc |-> "get", kind |-> "none", new |-> None,
             pre |-> <<satellite, last_tle_update.by>>]

\* variant: the handler of line 64 drops the element set it could not refresh
load_tle_except_clears(t, kind) ==
  /\ load' = [load EXCEPT ![t] = [@ EXCEPT !.pc = "ret", !.kind = kind]]
  /\ satellite' = None
  /\ last_tle_update' = NoStamp

\* lines 64-65, and the fall out of the loop of line 56: nothing is assigned
load_tle_except(t, kind) ==
  /\ load' = [load EXCEPT ![t] = [@ EXCEPT !.pc = "ret", !.kind = kind]]
  /\ UNCHANGED <<satellite, last_tle_update>>

\* line 60, right-hand side: the parser accepted the two lines
load_tle_parsed(t, kind) ==
  /\ load' = [load EXCEPT ![t] = [@ EXCEPT !.pc = "line60", !.kind = kind]]
  /\ UNCHANGED <<satellite, last_tle_update>>

\* lines 54-60: requests.get raises or returns a payload; the payload is scanned;
\* element lines that are not well formed are rejected by the parser (it raises)
\* or, in a lenient build of the parser, accepted
load_tle_get(t) ==
  /\ Alive
  /\ load[t].pc = "get"
  /\ \/ load_tle_except(t, "neterr")
     \/ \E kind \in ScanOutcomes :
          \/ kind = "good" /\ load_tle_parsed(t, "good")
          \/ kind \in {"nolabel", "truncated", "badlines"} /\ load_tle_except(t, kind)
          \/ kind = "badlines" /\ load_tle_parsed(t, "lenient")
  /\ cycle' = IF ref_pc = "load" /\ t = RefresherThread
               THEN [cycle EXCEPT !.attempts = @ + 1]
               ELSE cycle
  /\ UNCHANGED <<time_offset, ui_pc, tick, canvas, after_pending, ref_pc, waited,
                 presses, key_log, viewport, call>>

\* line 60: self.satellite = ...
load_tle_set_satellite(t) ==
  /\ Alive
  /\ load[t].pc = "line60"
  /\ satellite' = NewSatrec
  /\ load' = [load EXCEPT ![t] = [@ EXCEPT !.pc = "line61", !.new = NewSatrec]]
  /\ UNCHANGED <<last_tle_update, time_offset, ui_pc, tick, canvas, after_pending,
                 ref_pc, waited, cycle, presses, key_log, viewport, call>>

\* lines 61-63: self.last_tle_update = datetime.utcnow()
load_tle_set_update(t) ==
  /\ Alive
  /\ load[t].pc = "line61"
  /\ last_tle_update' = [by |-> load[t].new, age |-> 0]
  /\ load' = [load EXCEPT ![t].pc = "ret"]
  /\ UNCHANGED <<satellite, time_offset, ui_pc, tick, canvas, after_pending,
                 ref_pc, waited, cycle, presses, key_log, viewport, call>>

\* load_tle returns: to line 31 of __init__, or to line 74 of tle_updater
load_tle_return(t) ==
  /\ Alive
  /\ load[t].pc = "ret"
  /\ load' = [load EXCEPT ![t] = IdleLoad]
  /\ IF t = "ui" /\ ui_pc = "init_load"
     THEN ui_pc' = "init_refresh" /\ UNCHANGED <<ref_pc, waited>>
     ELSE ref_pc' = "wait" /\ waited' = 0 /\ UNCHANGED ui_pc
  /\ UNCHANGED <<satellite, last_tle_update, time_offset, tick, canvas,
                 after_pending, cycle, presses, key_log, viewport, call>>

\* ------------------------------------------------------------ the clock
TimePasses ==
  /\ Alive
  /\ last_tle_update' =
       IF last_tle_update.by = None THEN last_tle_update
       ELSE [last_tle_update EXCEPT !.age = Min(@ + Quantum, MaxAge)]
  /\ waited' = IF ref_pc = "wait" THEN Min(waited + Quantum, REFRESH_WAIT) ELSE waited
  /\ UNCHANGED <<satellite, time_offset, ui_pc, tick, canvas, after_pending,
                 ref_pc, load, cycle, presses, key_log, viewport, call>>

\* ------------------------------------------------------------ tle_updater
\* variant: an age equal to the threshold already counts as stale
IsStaleAtThreshold(stamp) == stamp.by = None \/ stamp.age >= STALE_SECONDS

\* line 72: the condition under which tle_updater calls load_tle
IsStale(stamp) == stamp.by = None \/ stamp.age > STALE_SECONDS

\* history: staleness as the specification defines it (absent, or older than the
\* threshold by more than nothing), recorded when the loop body starts
StaleAtWakeUp == last_tle_update.by = None \/ last_tle_update.age - STALE_SECONDS > 0

\* lines 70-73: one evaluation of the loop body up to the call of load_tle
tle_updater_check ==
  /\ Alive
  /\ ref_pc = "check"
  /\ IF IsStale(last_tle_update)
     THEN /\ load' = [load EXCEPT ![RefresherThread] = LoadCall]
          /\ ref_pc' = "load"
          /\ cycle' = [stale |-> StaleAtWakeUp, attempts |-> 0]
          /\ UNCHANGED waited
     ELSE /\ ref_pc' = "wait"
          /\ waited' = 0
          /\ cycle' = [stale |-> StaleAtWakeUp, attempts |-> 0]
          /\ UNCHANGED load
  /\ UNCHANGED <<satellite, last_tle_update, time_offset, ui_pc, tick, canvas,
                 after_pending, presses, key_log, viewport, call>>

\* line 74 returns after at least 60 s and the loop of line 70 goes round
tle_updater_wake ==
  /\ Alive
  /\ ref_pc = "wait"
  /\ waited >= REFRESH_WAIT
  /\ ref_pc' = "check"
  /\ waited' = 0
  /\ UNCHANGED <<satellite, last_tle_update, time_offset, ui_pc, tick, canvas,
                 after_pending, load, cycle, presses, key_log, viewport, call>>

\* ------------------------------------------------------------ __init__
\* variant: lines 30 and 31 are swapped, the refresher thread is started first
init_load_tle_after_refresh ==
  /\ ui_pc = "init_load"
  /\ load["ui"].pc = "idle"
  /\ load' = [load EXCEPT !["ui"] = LoadCall]
  /\ ref_pc' = IF ref_pc = "unstarted" THEN "check" ELSE ref_pc
  /\ UNCHANGED <<satellite, last_tle_update, time_offset, ui_pc, tick, canvas,
                 after_pending, waited, cycle, presses, key_log, viewport, call>>

\* line 30: the constructor calls load_tle on the UI thread
init_load_tle ==
  /\ ui_pc = "init_load"
  /\ load["ui"].pc = "idle"
  /\ load' = [load EXCEPT !["ui"] = LoadCall]
  /\ UNCHANGED <<satellite, last_tle_update, time_offset, ui_pc, tick, canvas,
                 after_pending, ref_pc, waited, cycle, presses, key_log, viewport, call>>

\* lines 31-35 and 67-75: the daemon thread is started, the keys are bound
schedule_tle_refresh ==
  /\ ui_pc = "init_refresh"
  /\ ui_pc' = "init_display"
  /\ ref_pc' = "check"
  /\ UNCHANGED <<satellite, last_tle_update, time_offset, tick, canvas,
                 after_pending, waited, load, cycle, presses, key_log, viewport, call>>

\* line 37: the constructor calls update_display
init_update_display ==
  /\ ui_pc = "init_display"
  /\ tick.pc = "idle"
  /\ tick' = [IdleTick EXCEPT !.pc = "clear"]
  /\ UNCHANGED <<satellite, last_tle_update, time_offset, ui_pc, canvas,
                 after_pending, ref_pc, waited, load, cycle, presses, key_log, viewport, call>>

\* ------------------------------------------------------------ update_display
\* the event loop runs a callback registered by line 117
timer_fires ==
  /\ ui_pc = "mainloop"
  /\ tick.pc = "idle"
  /\ after_pending > 0
  /\ after_pending' = after_pending - 1
  /\ tick' = [IdleTick EXCEPT !.pc = "clear"]
  /\ UNCHANGED <<satellite, last_tle_update, time_offset, ui_pc, canvas,
                 ref_pc, waited, load, cycle, presses, key_log, viewport, call>>

\* an exception leaves update_display: out of __init__ and of the program when the
\* call is the one of line 37 (the daemon thread dies with the process), into Tk's
\* report_callback_exception when the call is a timer callback
Raise ==
  /\ IF ui_pc = "init_display"
     THEN ui_pc' = "crashed" /\ ref_pc' = "killed" /\ tick' = tick
     ELSE tick' = IdleTick /\ UNCHANGED <<ui_pc, ref_pc>>
  /\ UNCHANGED <<canvas, after_pending>>

\* what sgp4 followed by eci_to_latlon yields for one instant: a longitude, NaN
\* when the propagator reports an error, or a position vector of length zero
Propagated(lons) == {Num(l) : l \in lons} \cup {NaNLon, [k |-> "zero", v |-> 0]}

\* variant: the branch of lines 145-146 is missing
smooth_longitude_one_way(prev_lon, curr_lon) ==
  IF curr_lon - prev_lon > 180 THEN curr_lon - 360 ELSE curr_lon

\* lines 141-147
smooth_longitude(prev_lon, curr_lon) ==
  LET delta == curr_lon - prev_lon IN
  IF delta > 180 THEN curr_lon - 360
  ELSE IF delta < -180 THEN curr_lon + 360
  ELSE curr_lon

\* lines 101-103: a comparison with NaN is false, so NaN passes through unchanged
Unwrap(prev, curr) ==
  IF prev.k = "num" /\ curr.k = "num"
  THEN Num(smooth_longitude(prev.v, curr.v))
  ELSE curr

\* lines 78-81
update_display_clear ==
  /\ Alive
  /\ tick.pc = "clear"
  /\ canvas' = {"image"}
  /\ tick' = [tick EXCEPT !.pc = "sgp4", !.now = time_offset, !.shown = canvas]
  /\ UNCHANGED <<satellite, last_tle_update, time_offset, ui_pc, after_pending,
                 ref_pc, waited, load, cycle, presses, key_log, viewport, call>>

\* lines 82-88: the current position and its marker
update_display_current(lons) ==
  /\ Alive
  /\ tick.pc = "sgp4"
  /\ IF satellite = None
     THEN Raise
     ELSE \E out \in Propagated(lons) :
            \/ out.k = "zero" /\ Raise
            \/ out.k = "nan" /\ Raise
            \/ /\ out.k \in {"num", "nan"}
               /\ canvas' = canvas \cup {"iss"}
               /\ tick' = [tick EXCEPT !.pc = "loop",
                                       !.e = IF out.k = "nan" THEN 1 ELSE 0,
                                       !.t = tick.now,
                                       !.sat = satellite,
                                       !.dims = <<CANVAS_WIDTH, CANVAS_HEIGHT>>]
               /\ UNCHANGED <<ui_pc, ref_pc, after_pending>>
  /\ UNCHANGED <<satellite, last_tle_update, time_offset, waited, load, cycle,
                 presses, key_log, viewport, call>>

\* line 93: the value of mins in iteration i of range(-10, 90, 2), i from 0
mins(i) == WINDOW_START + SAMPLE_STEP * i

\* lines 93-106: one sample of the track
update_display_sample(lons) ==
  /\ Alive
  /\ tick.pc = "loop"
  /\ tick.i < TrackSamples
  /\ IF satellite = None
     THEN Raise
     ELSE \E out \in Propagated(lons) :
            \/ out.k = "zero" /\ Raise
            \/ /\ out.k \in {"num", "nan"}
               /\ tick' = [tick EXCEPT !.i = @ + 1,
                                       !.prev_lon = Unwrap(tick.prev_lon, out),
                                       !.nan = @ \/ out.k = "nan",
                                       !.e = IF out.k = "nan" THEN 1 ELSE 0,
                                       !.path_coords = @ + 1,
                                       !.t = tick.now + mins(tick.i),
                                       !.sat_fut = satellite,
                                       !.dims = <<CANVAS_WIDTH, CANVAS_HEIGHT>>]
               /\ UNCHANGED <<ui_pc, ref_pc, canvas, after_pending>>
  /\ UNCHANGED <<satellite, last_tle_update, time_offset, waited, load, cycle,
                 presses, key_log, viewport, call>>

\* lines 108-117: the polyline, the label, and the next callback
update_display_draw ==
  /\ Alive
  /\ tick.pc = "loop"
  /\ tick.i = TrackSamples
  /\ \/ tick.nan /\ Raise
     \/ /\ canvas' = canvas \cup {"track", "text"}
        /\ after_pending' = after_pending + 1
        /\ tick' = IdleTick
        /\ ui_pc' = IF ui_pc = "init_display" THEN "mainloop" ELSE ui_pc
        /\ UNCHANGED ref_pc
  /\ UNCHANGED <<satellite, last_tle_update, time_offset, waited, load, cycle,
                 presses, key_log, viewport, call>>

\* ------------------------------------------------------------ key commands
KeyReady == ui_pc = "mainloop" /\ tick.pc = "idle"

\* line 150: self.time_offset += timedelta(minutes=2)
advance(offset) == offset + KEY_STEP

\* variant: the rewind step of an earlier revision, one minute
rewind_one_minute(offset) == offset - 1

\* line 153: self.time_offset -= timedelta(minutes=2)
rewind(offset) == offset - KEY_STEP

\* variant: the key handler redraws at once by calling update_display itself
go_forward_and_redraw ==
  /\ KeyReady
  /\ presses < MaxPresses
  /\ time_offset' = advance(time_offset)
  /\ presses' = presses + 1
  /\ key_log' = [cmd |-> "fwd", before |-> time_offset]
  /\ tick' = [IdleTick EXCEPT !.pc = "clear"]
  /\ UNCHANGED <<satellite, last_tle_update, ui_pc, canvas, after_pending,
                 ref_pc, waited, load, cycle, viewport, call>>

\* lines 149-150
go_forward ==
  /\ KeyReady
  /\ presses < MaxPresses
  /\ time_offset' = advance(time_offset)
  /\ presses' = presses + 1
  /\ key_log' = [cmd |-> "fwd", before |-> time_offset]
  /\ UNCHANGED <<satellite, last_tle_update, ui_pc, tick, canvas, after_pending,
                 ref_pc, waited, load, cycle, viewport, call>>

\* lines 152-153
go_back ==
  /\ KeyReady
  /\ presses > -MaxPresses
  /\ time_offset' = rewind(time_offset)
  /\ presses' = presses - 1
  /\ key_log' = [cmd |-> "back", before |-> time_offset]
  /\ UNCHANGED <<satellite, last_tle_update, ui_pc, tick, canvas, after_pending,
                 ref_pc, waited, load, cycle, viewport, call>>

\* variant: the reset key also forgets the element set
reset_time_and_store ==
  /\ KeyReady
  /\ time_offset' = 0
  /\ presses' = 0
  /\ key_log' = [cmd |-> "reset", before |-> time_offset]
  /\ satellite' = None
  /\ last_tle_update' = NoStamp
  /\ UNCHANGED <<ui_pc, tick, canvas, after_pending, ref_pc, waited, load, cycle, viewport, call>>

\* lines 155-156
reset_time ==
  /\ KeyReady
  /\ time_offset' = 0
  /\ presses' = 0
  /\ key_log' = [cmd |-> "reset", before |-> time_offset]
  /\ UNCHANGED <<satellite, last_tle_update, ui_pc, tick, canvas, after_pending,
                 ref_pc, waited, load, cycle, viewport, call>>

\* ------------------------------------------------------------ the window
\* the user resizes the window (root is resizable and nothing is bound to
\* <Configure>): the packed canvas gets another size, the program assigns nothing
resize ==
  /\ KeyReady
  /\ \E size \in ViewportSizes : size # viewport /\ viewport' = size
  /\ UNCHANGED <<satellite, last_tle_update, time_offset, ui_pc, tick, canvas,
                 after_pending, ref_pc, waited, load, cycle, presses, key_log, call>>

\* ------------------------------------------------------------ the program
Next ==
  \/ init_load_tle
  \/ schedule_tle_refresh
  \/ init_update_display
  \/ \E t \in Threads : load_tle_get(t)
  \/ \E t \in Threads : load_tle_set_satellite(t)
  \/ \E t \in Threads : load_tle_set_update(t)
  \/ \E t \in Threads : load_tle_return(t)
  \/ tle_updater_check
  \/ tle_updater_wake
  \/ TimePasses
  \/ timer_fires
  \/ update_display_clear
  \/ update_display_current(MainLons)
  \/ update_display_sample(MainLons)
  \/ update_display_draw
  \/ go_forward
  \/ go_back
  \/ reset_time

Spec == Init /\ [][Next]_vars

\* the refresher thread is scheduled again and again, and the clock runs
RefresherNext ==
  \/ tle_updater_check
  \/ tle_updater_wake
  \/ /\ ref_pc = "load"
     /\ \/ load_tle_get(RefresherThread)
        \/ load_tle_set_satellite(RefresherThread)
        \/ load_tle_set_update(RefresherThread)
        \/ load_tle_return(RefresherThread)

\* the UI thread runs the constructor to its end and then the event loop, which
\* dispatches the timer callbacks; key commands are up to the user
UINext ==
  \/ init_load_tle
  \/ /\ ui_pc = "init_load"
     /\ \/ load_tle_get("ui")
        \/ load_tle_set_satellite("ui")
        \/ load_tle_set_update("ui")
        \/ load_tle_return("ui")
  \/ schedule_tle_refresh
  \/ init_update_display
  \/ timer_fires
  \/ update_display_clear
  \/ update_display_current(MainLons)
  \/ update_display_sample(MainLons)
  \/ update_display_draw

FairSpec ==
  Spec /\ WF_vars(UINext) /\ WF_vars(RefresherNext) /\ WF_vars(TimePasses)

\* ------------------------------------------------------------ the UI thread alone
\* The state after a construction whose load succeeded, with the first tick drawn
\* and the refresher asleep; from there only the UI thread is scheduled, the
\* propagator may return any longitude of TrackLons, and the user may resize the
\* window.
InitUI ==
  /\ satellite = 1
  /\ last_tle_update = [by |-> 1, age |-> 0]
  /\ time_offset = 0
  /\ ui_pc = "mainloop"
  /\ tick = IdleTick
  /\ canvas = {"image", "iss", "track", "text"}
  /\ after_pending = 1
  /\ ref_pc = "wait"
  /\ waited = 0
  /\ load = [t \in Threads |-> IdleLoad]
  /\ cycle = NoCycle
  /\ presses = 0
  /\ key_log = [cmd |-> "none", before |-> 0]
  /\ viewport = <<CANVAS_WIDTH, CANVAS_HEIGHT>>
  /\ call = NoCall

NextUI ==
  \/ timer_fires
  \/ update_display_clear
  \/ update_display_current(TrackLons)
  \/ update_display_sample(TrackLons)
  \/ update_display_draw
  \/ go_forward
  \/ go_back
  \/ reset_time
  \/ resize

SpecUI == InitUI /\ [][NextUI]_vars

\* ------------------------------------------------------------ latlon_to_xy
\* A float is modelled by the exact fraction <<n, d>>, d > 0, in lowest terms.
RECURSIVE GCD(_, _)
GCD(a, b) == IF b = 0 THEN Abs(a) ELSE GCD(b, a % b)

Frac(n, d) ==
  LET g == GCD(n, d)
      sgn == IF d < 0 THEN -1 ELSE 1
  IN <<sgn * (n \div g), sgn * (d \div g)>>

FAdd(p, q) == Frac(p[1] * q[2] + q[1] * p[2], p[2] * q[2])
FSub(p, q) == Frac(p[1] * q[2] - q[1] * p[2], p[2] * q[2])
FMul(p, q) == Frac(p[1] * q[1], p[2] * q[2])
FDiv(p, q) == Frac(p[1] * q[2], p[2] * q[1])

\* variant: y grows with the latitude (north at the bottom)
latlon_to_xy_north_down(lat, lon, width, height) ==
  <<FMul(FAdd(lon, Frac(180, 1)), FDiv(width, Frac(360, 1))),
    FMul(FAdd(Frac(90, 1), lat), FDiv(height, Frac(180, 1)))>>

\* lines 136-139
latlon_to_xy(lat, lon, width, height) ==
  <<FMul(FAdd(lon, Frac(180, 1)), FDiv(width, Frac(360, 1))),
    FMul(FSub(Frac(90, 1), lat), FDiv(height, Frac(180, 1)))>>

\* arguments of the calls: degrees with and without a fractional part, and sizes
\* that 360 and 180 divide or not
Latitudes == {Frac(-90, 1), Frac(-91, 2), Frac(0, 1), Frac(100, 3), Frac(90, 1)}
Longitudes == {Frac(-180, 1), Frac(-181, 2), Frac(0, 1), Frac(200, 3), Frac(180, 1)}
Widths == {Frac(1, 1), Frac(7, 1), Frac(CANVAS_WIDTH, 1)}
Heights == {Frac(1, 1), Frac(3, 1), Frac(CANVAS_HEIGHT, 1)}

call_latlon_to_xy ==
  /\ call.fn = "latlon_to_xy"
  /\ call.ret = <<>>
  /\ call' = [call EXCEPT !.ret = latlon_to_xy(call.args[1], call.args[2],
                                                call.args[3], call.args[4])]
  /\ UNCHANGED <<satellite, last_tle_update, time_offset, ui_pc, tick, canvas,
                 after_pending, ref_pc, waited, load, cycle, presses, key_log,
                 viewport>>

\* ------------------------------------------------------------ eci_to_latlon
\* A float is modelled by <<a, b, s>>: the number a + b * eps, where eps is a
\* positive amount below half the spacing of the floats around 1, and its sign s,
\* which tells 0.0 from -0.0. A sum with a non-zero a absorbs the eps part, as
\* 1.0 + 6e-17 == 1.0 does.
Sign(n) == IF n > 0 THEN 1 ELSE IF n < 0 THEN -1 ELSE 0
Float(a, b, s) == <<a, b, IF a # 0 THEN Sign(a) ELSE IF b # 0 THEN Sign(b) ELSE s>>
EMul(u, v) == Float(u[1] * v[1], u[1] * v[2] + u[2] * v[1], u[3] * v[3])
ENeg(u) == <<-u[1], -u[2], -u[3]>>
EAdd(u, v) ==
  LET a == u[1] + v[1] IN
  Float(a, IF a # 0 THEN 0 ELSE u[2] + v[2], IF u[3] = -1 /\ v[3] = -1 THEN -1 ELSE 1)

\* lines 120-122: jd counts quarter sidereal days from an instant where the
\* sidereal angle is zero, so that GMST % 360.0 is 0, 90, 180 or 270
GMST(jd) == (90 * jd) % 360

\* math.cos and math.sin of math.radians(GMST): the floats nearest to pi/2, pi and
\* 3*pi/2 are not these numbers, so cos(90) = 6.1e-17, sin(180) = 1.2e-16 and
\* cos(270) = -1.8e-16 instead of zero
Cos(deg) ==
  CASE deg = 0 -> <<1, 0, 1>> [] deg = 90 -> <<0, 1, 1>>
    [] deg = 180 -> <<-1, 0, -1>> [] deg = 270 -> <<0, -1, -1>>
Sin(deg) ==
  CASE deg = 0 -> <<0, 0, 1>> [] deg = 90 -> <<1, 0, 1>>
    [] deg = 180 -> <<0, 1, 1>> [] deg = 270 -> <<-1, 0, -1>>

\* math.degrees(math.asin(z / r)) in whole degrees, for r * r = r2 > 0
AsinDeg(z, r2) ==
  LET zz == z[1] * z[1] IN
  CASE zz = 0 -> 0
    [] zz = r2 -> 90 * z[3]
    [] 2 * zz = r2 -> 45 * z[3]
    [] 3 * zz = r2 -> 35 * z[3]

\* math.degrees(math.atan2(y, x)) in whole degrees. atan2 returns a float of
\* [-pi, pi]: when y is zero or too small beside x to move the result away from
\* 0 or pi, it returns 0 for x > 0 or 0.0, and pi with the sign of y for x < 0 or
\* -0.0; when x is zero or too small beside y, pi/2 with the sign of y.
Atan2Deg(y, x) ==
  LET eps == x[1] = 0 /\ y[1] = 0
      ym == IF eps THEN y[2] ELSE y[1]
      xm == IF eps THEN x[2] ELSE x[1]
  IN CASE ym = 0 /\ xm # 0 -> IF xm > 0 THEN 0 ELSE 180 * y[3]
       [] ym = 0 /\ xm = 0 -> IF x[3] > 0 THEN 0 ELSE 180 * y[3]
       [] ym # 0 /\ xm = 0 -> 90 * y[3]
       [] ym # 0 /\ Abs(xm) = Abs(ym) -> IF xm > 0 THEN 45 * y[3] ELSE 135 * y[3]

\* lines 119-134; pos holds whole numbers
eci_to_latlon(pos, jd) ==
  LET theta == GMST(jd)
      p0 == Float(pos[1], 0, 1)
      p1 == Float(pos[2], 0, 1)
      x == EAdd(EMul(p0, Cos(theta)), EMul(p1, Sin(theta)))
      y == EAdd(EMul(ENeg(p0), Sin(theta)), EMul(p1, Cos(theta)))
      z == Float(pos[3], 0, 1)
      r2 == x[1] * x[1] + y[1] * y[1] + z[1] * z[1]
      lon == Atan2Deg(y, x)
  IN IF r2 = 0 /\ x[2] = 0 /\ y[2] = 0
     THEN <<"ZeroDivisionError">>
     ELSE <<AsinDeg(z, r2), IF lon > 180 THEN lon - 360 ELSE lon>>

Coords == {-1, 0, 1}
Positions == Coords \X Coords \X Coords
JulianDates == 0..3

call_eci_to_latlon ==
  /\ call.fn = "eci_to_latlon"
  /\ call.ret = <<>>
  /\ call' = [call EXCEPT !.ret = eci_to_latlon(call.args[1], call.args[2])]
  /\ UNCHANGED <<satellite, last_tle_update, time_offset, ui_pc, tick, canvas,
                 after_pending, ref_pc, waited, load, cycle, presses, key_log,
                 viewport>>

\* ------------------------------------------------------------ the pure methods
\* One call of latlon_to_xy or of eci_to_latlon on arguments drawn from the sets
\* above, in a program whose construction succeeded and whose first tick is drawn,
\* with the window at either size.
InitCalls ==
  /\ satellite = 1
  /\ last_tle_update = [by |-> 1, age |-> 0]
  /\ time_offset = 0
  /\ ui_pc = "mainloop"
  /\ tick = IdleTick
  /\ canvas = {"image", "iss", "track", "text"}
  /\ after_pending = 1
  /\ ref_pc = "wait"
  /\ waited = 0
  /\ load = [t \in Threads |-> IdleLoad]
  /\ cycle = NoCycle
  /\ presses = 0
  /\ key_log = [cmd |-> "none", before |-> 0]
  /\ viewport \in ViewportSizes
  /\ \/ \E lat \in Latitudes, lon \in Longitudes, w \in Widths, h \in Heights :
          call = [fn |-> "latlon_to_xy", args |-> <<lat, lon, w, h>>, ret |-> <<>>]
     \/ \E pos \in Positions, jd \in JulianDates :
          call = [fn |-> "eci_to_latlon", args |-> <<pos, jd>>, ret |-> <<>>]

NextCalls ==
  \/ call_latlon_to_xy
  \/ call_eci_to_latlon

SpecCalls == InitCalls /\ [][NextCalls]_vars

\* ============================================================ claims
FetchRecord == <<satellite, last_tle_update.by>>

\* C1: when a call of load_tle has failed (network error, no label, fewer than two
\* lines after the label, lines rejected by the parser), satellite and
\* last_tle_update are the ones the call found on entry.
C1_FailedLoadKeepsRecord ==
  \A t \in Threads :
    (load[t].pc = "ret" /\ load[t].kind \in FailKinds) => FetchRecord = load[t].pre

\* a refresh found the label with fewer than two lines after it while an element
\* set was loaded
C1_Witness ==
  /\ load["bg"].pc = "ret"
  /\ load["bg"].kind = "truncated"
  /\ load["bg"].pre[1] # None
  /\ satellite # None

\* C2: a render tick that finds no element set does not propagate and completes
\* normally: it schedules the next tick and leaves the base map on the canvas.
C2_TickWithoutElementsCompletes ==
  [][(tick.pc = "sgp4" /\ satellite = None /\ <<tick, ui_pc>>' # <<tick, ui_pc>>)
       => /\ ui_pc' # "crashed"
          /\ after_pending' = after_pending + 1
          /\ canvas' = {"image"}]_vars

\* C3: the render loop never stops: once the constructor has reached line 37 a
\* tick is running or the next one is scheduled, and the process is alive.
C3_RenderLoopNeverStops ==
  /\ ui_pc # "crashed"
  /\ ui_pc = "mainloop" => (tick.pc # "idle" \/ after_pending > 0)

\* C4: satellite and last_tle_update are both absent or both written by the same
\* successful call of load_tle.
C4_FetchRecordAtomic ==
  \/ satellite = None /\ last_tle_update.by = None
  \/ satellite # None /\ last_tle_update.by = satellite

\* a step in which a fetch ends otherwise than with a well-formed payload that
\* holds the label
BadFetch ==
  \E t \in Threads :
    load[t].pc = "get" /\ load'[t].pc # "get" /\ load'[t].kind # "good"

\* C5: with both threads and the clock scheduled fairly, if from some point on no
\* fetch fails then an empty store eventually holds an element set: failed
\* attempts are retried and do not end the refresh loop.
C5_RefreshEventuallySucceeds ==
  <>[][~BadFetch]_vars => <>(satellite # None)

\* C6: an iteration of tle_updater fetches at most once, and exactly when the
\* record was absent or more than 600 s old at the wake-up.
C6_OneFetchIffStale ==
  /\ cycle.attempts <= 1
  /\ ref_pc = "wait" => (cycle.attempts = 1 <=> cycle.stale)

\* the record was exactly 600 s old at the wake-up and nothing was fetched
C6_Witness ==
  /\ ref_pc = "wait"
  /\ waited = 0
  /\ last_tle_update.age = STALE_SECONDS
  /\ cycle.attempts = 0
  /\ ~cycle.stale

TrackStep ==
  /\ tick.pc = "loop"
  /\ tick'.pc = "loop"
  /\ tick'.i = tick.i + 1
  /\ tick.prev_lon.k = "num"
  /\ tick'.prev_lon.k = "num"

\* C8 as stated: consecutive unwrapped longitudes never differ by more than 180.
C8_JumpAtMost180 ==
  [][TrackStep => Abs(tick'.prev_lon.v - tick.prev_lon.v) <= 180]_vars

\* C8 amended: they do not differ by more than 180 when the previous unwrapped
\* longitude lies in [-360, 360].
C8_JumpAtMost180WithinOneTurn ==
  [][(TrackStep /\ Abs(tick.prev_lon.v) <= 360)
       => Abs(tick'.prev_lon.v - tick.prev_lon.v) <= 180]_vars

\* the third sample of a track is emitted as 182 (raw -178 after the seam)
C8_Witness ==
  /\ tick.pc = "loop"
  /\ tick.i = 3
  /\ tick.prev_lon = Num(182)

\* C9: time_offset is (advances - rewinds since the last reset) times the step;
\* a rewind undoes the advance before it and an advance the rewind before it;
\* after a reset time_offset is zero.
C9_TimeController ==
  /\ [](time_offset = presses * KEY_STEP)
  /\ [](key_log.cmd = "reset" => time_offset = 0)
  /\ [][(key_log.cmd = "fwd" /\ key_log'.cmd = "back")
           => time_offset' = key_log.before]_vars
  /\ [][(key_log.cmd = "back" /\ key_log'.cmd = "fwd")
           => time_offset' = key_log.before]_vars

\* a rewind has just undone an advance made from a non-zero offset
C9_Witness ==
  /\ key_log.cmd = "back"
  /\ key_log.before = 2 * KEY_STEP
  /\ time_offset = KEY_STEP
  /\ presses = 1

\* a key-command step
KeyStep == key_log' # key_log \/ presses' # presses

\* C10: time_offset starts at zero and changes only in key-command steps; steps of
\* a render tick, of the refresher and of load_tle leave it unchanged; a
\* key-command step leaves satellite and last_tle_update unchanged.
C10_OffsetFrame ==
  /\ time_offset = 0
  /\ [][time_offset' # time_offset => KeyStep]_vars
  /\ [][(tick' # tick \/ ref_pc' # ref_pc \/ load' # load \/ canvas' # canvas)
           => time_offset' = time_offset]_vars
  /\ [][KeyStep => UNCHANGED <<satellite, last_tle_update>>]_vars

\* a refresh has failed and a tick is idle with a non-zero offset and a loaded set
C10_Witness ==
  /\ time_offset = -KEY_STEP
  /\ key_log.cmd = "back"
  /\ satellite # None
  /\ load["bg"].pc = "ret"
  /\ load["bg"].kind \in FailKinds

\* a step that ends lines 83-85 of a tick holding an element set otherwise than
\* with the position of the current point
FailedCurrent ==
  /\ tick.pc = "sgp4"
  /\ satellite # None
  /\ <<tick, ui_pc>>' # <<tick, ui_pc>>
  /\ ~(tick'.pc = "loop" /\ tick'.e = 0)

\* C11: when the propagation of the current point fails (error code, or position
\* vector of length zero) the tick is skipped without an uncaught error: the
\* process lives, the tick ends, the next one is scheduled, and the canvas shows
\* what the previous tick drew.
C11_FailedPropagationSkipsTick ==
  [][FailedCurrent
       => /\ ui_pc' # "crashed"
          /\ tick'.pc = "idle"
          /\ after_pending' = after_pending + 1
          /\ canvas' = tick.shown]_vars

\* a step of the track loop whose propagation reports an error
FailedSample ==
  /\ tick.pc = "loop"
  /\ tick'.pc = "loop"
  /\ tick'.i = tick.i + 1
  /\ tick'.e # 0

\* C12: a track sample whose propagation fails adds no point to the polyline, and
\* the unwrap reference it leaves for the next sample is not its own longitude.
C12_FailedSampleSkipped ==
  [][FailedSample
       => /\ tick'.path_coords = tick.path_coords
          /\ tick'.prev_lon \in {tick.prev_lon, NoLon}]_vars

\* C13: a tick projects with the width and height the viewport has.
C13_ProjectsWithViewport ==
  tick.pc = "loop" => tick.dims = viewport

C15_LatLonRanges ==
  (call.fn = "eci_to_latlon" /\ call.ret # <<>> /\ call.args[1] # <<0, 0, 0>>) =>
    /\ Len(call.ret) = 2
    /\ call.ret[1] >= -90 /\ call.ret[1] <= 90
    /\ call.ret[2] > -180 /\ call.ret[2] <= 180

\* the step in which a tick draws the polyline and the label and ends normally
TickCompletes == tick.pc = "loop" /\ tick'.pc = "idle" /\ "text" \in canvas'

\* C16: a tick reads time_offset once, propagates the marker at that instant and
\* sample number k of the track (k from 1) at that instant - 10 + 2 * (k - 1)
\* minutes; the track starts empty in every tick, has one point per sample, and
\* has exactly 50 points, the last at + 88 minutes, when the tick completes.
C16_TrackWindow ==
  /\ [](tick.pc = "loop"
          => /\ tick.now = time_offset
             /\ tick.path_coords = tick.i
             /\ tick.i <= 50
             /\ tick.i = 0 => tick.t = tick.now
             /\ tick.i > 0 => tick.t = tick.now - 10 + 2 * (tick.i - 1))
  /\ [][tick'.pc = "clear" => tick'.path_coords = 0]_vars
  /\ [][TickCompletes => (tick.path_coords = 50 /\ tick.t = tick.now + 88)]_vars

\* the last sample of a track is in, all propagations succeeded, and the user had
\* rewound the time twice before the tick
C16_Witness ==
  /\ tick.pc = "loop"
  /\ tick.i = 50
  /\ tick.path_coords = 50
  /\ ~tick.nan
  /\ tick.now = -2 * KEY_STEP
  /\ tick.t = 84

\* C17: within a tick every track sample is propagated from the element set the
\* marker was propagated from.
C17_OneElementSetPerTick ==
  (tick.pc = "loop" /\ tick.i > 0) => tick.sat_fut = tick.sat

\* C18: at most one call of load_tle is in progress; the UI thread is inside
\* load_tle only while the constructor is at line 30.
C18_OneLoadAtATime ==
  /\ Cardinality({t \in Threads : load[t].pc # "idle"}) <= 1
  /\ ui_pc # "init_load" => load["ui"].pc = "idle"

\* the refresher is between its two assignments while the event loop runs
C18_Witness ==
  /\ load["bg"].pc = "line61"
  /\ load["ui"].pc = "idle"
  /\ ui_pc = "mainloop"

\* C19: at most one update_display callback is pending, and none while a tick is
\* running; a tick that completes registers exactly one, and no other step (a
\* key command, a step of the refresher, a fetch that fails) registers any.
C19_OnePendingCallback ==
  /\ [](after_pending <= 1)
  /\ [](tick.pc # "idle" => after_pending = 0)
  /\ [][TickCompletes => after_pending' = after_pending + 1]_vars
  /\ [][after_pending' > after_pending => TickCompletes]_vars

\* one callback is pending after an advance key and a refresh that failed
C19_Witness ==
  /\ after_pending = 1
  /\ key_log.cmd = "fwd"
  /\ load["bg"].pc = "ret"
  /\ load["bg"].kind \in FailKinds

====
